---------------------------- MODULE Spec2Model ----------------------------
(***************************************************************************)
(* Model of github.com/jboverfelt/secure: the secure Reader / Writer of    *)
(* secure.go (frames  nonce || uint16-LE length || ciphertext  over a byte *)
(* stream) and the handshake of cmd/challenge2/main.go.                    *)
(*                                                                         *)
(* Byte strings are sequences of integers 0..255.  A destination buffer p  *)
(* of Read is kept as its length (plen) and the bytes Read stored at its   *)
(* front (data); the bytes behind them are never touched by the code.      *)
(*                                                                         *)
(* The NaCl box primitive (golang.org/x/crypto/nacl/box) is a library: it  *)
(* is modelled by a keyed byte-wise stream cipher and a keyed 16-byte tag  *)
(* in front of the ciphertext (the secretbox layout), such that Open       *)
(* accepts exactly the boxes whose tag matches.                            *)
(***************************************************************************)
EXTENDS Integers, Sequences, FiniteSets, TLC

\* ------------------------------------------------------------- constants
NonceSize == 24
KeySize == 32
MaxMessageSize == 32768
Overhead == 16
\* the width of uint16 and of a byte
UInt16Mod == 2 ^ 16
ByteMod == 2 ^ 8

\* --------------------------------------------------------------- bounds
\* longest plaintext of the byte-level specification
MaxLen == 2
\* calls of Read per reader
MaxReads == 2

End == {"client", "server"}
Peer(e) == IF e = "client" THEN "server" ELSE "client"

\* ------------------------------------------------------- byte helpers
Min(a, b) == IF a < b THEN a ELSE b

\* uint16(x): the conversion truncates, the subtraction wraps
U16(x) == x % UInt16Mod

\* binary.Write(w, binary.LittleEndian, uint16(v))
LE16(v) == << U16(v) % ByteMod, U16(v) \div ByteMod >>

\* binary.Read(r, binary.LittleEndian, &size) on the two bytes b
\* the length field decoded in the other byte order
FromBE16(b) == ByteMod * b[1] + b[2]
FromLE16(b) == b[1] + ByteMod * b[2]

\* a function on 1..n as a sequence value
AsSeq(f) == SubSeq(f, 1, Len(f))

\* the n bytes seed+1, seed+2, ... (test data)
Pattern(seed, n) == AsSeq([i \in 1..n |-> (seed + i) % ByteMod])

FlipBit(b, k) == IF (b \div (2 ^ k)) % 2 = 1 THEN b - 2 ^ k ELSE b + 2 ^ k

\* ------------------------------------------------ the box primitive
RECURSIVE Pow(_, _)
Pow(g, x) == IF x = 0 THEN 1 ELSE (g * Pow(g, x - 1)) % 251

KeyBytes(v) == [i \in 1..KeySize |-> v]

\* box.GenerateKey: the public key of a private key
PubOf(priv) == KeyBytes(Pow(6, priv[1]))

\* box.Precompute(&shared, pub, priv)
KeyValue(pub) == IF \A i \in 1..KeySize : pub[i] = pub[1] THEN pub[1] % 251 ELSE 0
Precompute(pub, priv) == KeyBytes(Pow(KeyValue(pub), priv[1]))

KeyStream(shared, nonce, i) ==
    (shared[((i - 1) % KeySize) + 1] + nonce[((i - 1) % NonceSize) + 1] + i) % ByteMod

RECURSIVE CheckSum(_, _, _)
CheckSum(b, lo, hi) ==
    IF lo > hi THEN 0
    ELSE IF lo = hi THEN ((2 * lo + 1) * b[lo]) % ByteMod
    ELSE LET mid == (lo + hi) \div 2
         IN  (CheckSum(b, lo, mid) + CheckSum(b, mid + 1, hi)) % ByteMod

\* the authentication tag of a ciphertext body under (nonce, shared)
Tag(body, nonce, shared) ==
    LET cs == CheckSum(body, 1, Len(body))
    IN  [j \in 1..Overhead |->
            (shared[j] + shared[j + Overhead] + nonce[j]
               + j * (Len(body) + 1) + (2 * j + 1) * cs) % ByteMod]

\* box.SealAfterPrecomputation(nil, p, &nonce, &shared): tag, then ciphertext
Seal(p, nonce, shared) ==
    LET body == AsSeq([i \in 1..Len(p) |-> (p[i] + KeyStream(shared, nonce, i)) % ByteMod])
    IN  Tag(body, nonce, shared) \o body

\* auth of box.OpenAfterPrecomputation(p[0:0], enc, &nonce, &shared)
OpenAuth(enc, nonce, shared) ==
    /\ Len(enc) >= Overhead
    /\ SubSeq(enc, 1, Overhead)
         = Tag(SubSeq(enc, Overhead + 1, Len(enc)), nonce, shared)

\* decrypt of box.OpenAfterPrecomputation, for an authenticated box
OpenPlain(enc, nonce, shared) ==
    AsSeq([i \in 1..(Len(enc) - Overhead) |->
              (enc[Overhead + i] - KeyStream(shared, nonce, i)) % ByteMod])

\* ------------------------------------------------------------ the state
VARIABLES
    wire,     \* wire[e]: the bytes e has put on its outgoing stream, as its peer reads them
    closed,   \* closed[e]: e's outgoing stream has ended
    rpos,     \* rpos[e]: how many bytes of wire[Peer(e)] e has consumed
    shared,   \* shared[e]: the shared secret of e's Reader and Writer, <<>> before they exist
    rd,       \* rd[e]: the position of e's running Read
    res,      \* res[e]: what e's last Read returned
    wres,     \* wres[e]: what e's last Write returned
    sent,     \* sent[e]: one record per call of e's Write
    nreads,   \* nreads[e]: calls of e's Read so far
    msgs,     \* the test messages handed to the client's Write, as [seed, len]
    pc,       \* pc[e]: where e stands in dial and main, or in serve and handleConnection
    priv,     \* priv[e]: e's private key, <<>> before box.GenerateKey
    kbuf,     \* kbuf[e]: the bytes of the peer's public key e has read so far
    kout,     \* kout[e]: how many bytes of its public key e has written
    conn,     \* conn[e]: e's end of the connection: "none", "open" or "closed"
    served    \* one record per connection serve has accepted and handed to a handler

hs == << pc, priv, kbuf, kout, conn, served >>
vars == << wire, closed, rpos, shared, rd, res, wres, sent, nreads, msgs, pc, priv, kbuf,
           kout, conn, served >>

Idle == [pc |-> "idle", plen |-> 0, start |-> 0, nonce |-> <<>>, size |-> 0, got |-> <<>>,
         reads |-> 0]
NoRes == [done |-> FALSE, n |-> 0, err |-> "nil", data |-> <<>>, start |-> 0, plen |-> 0,
          used |-> 0, reads |-> 0, eof |-> FALSE]
NoWRes == [done |-> FALSE, n |-> 0, err |-> "nil"]

\* ------------------------------------------------------------ Writer.Write
\* the length field put before the nonce
WriteBufsLengthFirst(p, nonce, sh) ==
    LET enc == Seal(p, nonce, sh)
    IN  << LE16(Len(enc)), nonce, enc >>

\* the three buffers Write hands to s.w.Write, in order
WriteBufs(p, nonce, sh) ==
    LET enc == Seal(p, nonce, sh)
    IN  << nonce, LE16(Len(enc)), enc >>

\* the error of binary.Write left unchecked
ChecksWriteErrNotLength(i) == i # 2

\* Write returns ErrEncWrite when the i-th transport write reports an error
ChecksWriteErr(i) == TRUE

\* a transport write of len bytes that accepts acc of them: an io.Writer
\* reports an error exactly when it accepts fewer bytes than it was given
TransportErr(acc, len) == acc < len

\* the failed call still handing its nonce buffer to the transport
RandFailedNonceWritten(nonce) ==
    [bytes |-> nonce, calls |-> 1, given |-> NonceSize, n |-> 0, err |-> "nonce"]

\* io.ReadFull(rand.Reader, nonce[:]) fails: Write returns 0 and the error
\* before its first transport write
RandFailed(nonce) ==
    [bytes |-> <<>>, calls |-> 0, given |-> 0, n |-> 0, err |-> "nonce"]

\* Write(p) with the nonce drawn, randOK telling whether rand.Reader supplied
\* it; fault.at names the transport write that accepts only fault.acc bytes
WriteOutcome(p, nonce, sh, randOK, fault) ==
    LET bufs == WriteBufs(p, nonce, sh)
        acc(i) == IF fault.at = i THEN Min(fault.acc, Len(bufs[i])) ELSE Len(bufs[i])
        stop(i) == TransportErr(acc(i), Len(bufs[i])) /\ ChecksWriteErr(i)
        calls == IF stop(1) THEN 1 ELSE IF stop(2) THEN 2 ELSE 3
        put(i) == IF i <= calls THEN SubSeq(bufs[i], 1, acc(i)) ELSE <<>>
        ok == ~stop(1) /\ ~stop(2) /\ ~stop(3)
    IN  IF ~randOK
        THEN RandFailed(nonce)
        ELSE [bytes |-> put(1) \o put(2) \o put(3),
              calls |-> calls,
              given |-> Len(bufs[1]) + Len(bufs[2]) + Len(bufs[3]),
              n |-> IF ok THEN Len(p) ELSE 0,
              err |-> IF ok THEN "nil" ELSE "ErrEncWrite"]

NoFault == [at |-> 0, acc |-> 0]

\* a nonce kept in the Writer and used again by its later calls
CallNonceStored(log, drawn) == IF log = <<>> THEN drawn ELSE log[Len(log)].nonce

\* the nonce of a call is a local array that rand.Read fills in that call;
\* the Writer keeps none (log is what its earlier calls did)
CallNonce(log, drawn) == drawn

\* one call of e's Write(p); the record in sent keeps what the call was given
\* and what the transport took
Write(e, p, nonce, randOK, fault) ==
    /\ shared[e] # <<>>
    /\ closed[e] => fault = [at |-> 1, acc |-> 0]
    /\ LET nc == CallNonce(sent[e], nonce)
           o == WriteOutcome(p, nc, shared[e], randOK, fault)
       IN  /\ wire' = [wire EXCEPT ![e] = @ \o o.bytes]
           /\ wres' = [wres EXCEPT ![e] = [done |-> TRUE, n |-> o.n, err |-> o.err]]
           /\ sent' = [sent EXCEPT ![e] = Append(@,
                         [len |-> Len(p), nonce |-> nc, start |-> Len(wire[e]),
                          acc |-> Len(o.bytes), given |-> o.given, calls |-> o.calls,
                          rand |-> randOK, fault |-> fault, n |-> o.n, err |-> o.err,
                          flipped |-> FALSE])]
    /\ UNCHANGED << closed, rpos, shared, rd, res, nreads >>

\* ------------------------------------------------------------- Reader.Read
\* a field buffer (var nonce [NonceSize]byte, var size uint16, make([]byte, size))
\* starts zeroed and holds the bytes read into it so far
FieldValue(got, need) ==
    IF Len(got) >= need
    THEN SubSeq(got, 1, need)
    ELSE got \o AsSeq([i \in 1..(need - Len(got)) |-> 0])

\* a single transport read per field, whatever it delivers
FieldCompleteOneRead(got, need) == Len(got) >= 1

\* io.ReadFull (and binary.Read, which uses it) returns once the field is full
FieldComplete(got, need) == Len(got) >= need

\* the buffer check off by one
BufTooSmallOffByOne(plen, size) == U16(plen) + 1 < U16(size - Overhead)

\* "Ensure buffer is large enough": uint16(len(p)) < size-box.Overhead
BufTooSmall(plen, size) == U16(plen) < U16(size - Overhead)

\* the authentication verdict of the box ignored
DecodeUnchecked(enc, nonce, sh) ==
    [n |-> Len(enc) - Overhead, err |-> "nil", data |-> OpenPlain(enc, nonce, sh)]

\* what Read returns once the ciphertext enc is in
Decode(enc, nonce, sh) ==
    IF OpenAuth(enc, nonce, sh)
    THEN [n |-> Len(enc) - Overhead, err |-> "nil", data |-> OpenPlain(enc, nonce, sh)]
    ELSE [n |-> 0, err |-> "ErrDecrypt", data |-> <<>>]

\* the count of the failed io.ReadFull passed on to the caller
EofResultPartial(r) == [n |-> Len(r.got), err |-> r.pc, data |-> r.got]

\* io.ReadFull failed in the field r.pc: return 0, errors.New(<field>)
EofResult(r) == [n |-> 0, err |-> r.pc, data |-> <<>>]

\* a read of the ciphertext that takes one byte more than the length field says
NeedReadsAhead(r) == IF r.pc = "nonce" THEN NonceSize ELSE IF r.pc = "size" THEN 2 ELSE r.size + 1

\* the bytes the running io.ReadFull asks for: the nonce, the length field,
\* then exactly size bytes of ciphertext
Need(r) == IF r.pc = "nonce" THEN NonceSize ELSE IF r.pc = "size" THEN 2 ELSE r.size

Reading(e) == rd[e].pc \in {"nonce", "size", "msg"}

Avail(e) == Len(wire[Peer(e)]) - rpos[e]

\* Read returns (n, err) with data stored at the front of p; the record keeps
\* where the call started, len(p), the stream bytes it consumed, the transport
\* reads that delivered them and whether it met the end of the stream
Return(e, n, err, data, used, reads, eof) ==
    /\ res' = [res EXCEPT ![e] = [done |-> TRUE, n |-> n, err |-> err, data |-> data,
                                   start |-> rd[e].start, plen |-> rd[e].plen,
                                   used |-> used, reads |-> reads, eof |-> eof]]
    /\ rd' = [rd EXCEPT ![e] = Idle]

\* Read(p) is called with len(p) = plen
ReadCall(e, plen) ==
    /\ shared[e] # <<>>
    /\ rd[e].pc = "idle"
    /\ nreads[e] < MaxReads
    /\ rd' = [rd EXCEPT ![e] = [Idle EXCEPT !.pc = "nonce", !.plen = plen, !.start = rpos[e]]]
    /\ res' = [res EXCEPT ![e] = NoRes]
    /\ nreads' = [nreads EXCEPT ![e] = @ + 1]
    /\ UNCHANGED << wire, closed, rpos, shared, wres, sent >>

\* a Read that takes the ciphertext of the frame it refuses off the stream
DiscardsRefused(size, left) == Min(size, left)

\* Read returns "wrong size" right after the length field: of the size bytes
\* of ciphertext, left of them waiting in the stream, it takes none
Discard(size, left) == 0

\* the transport's read-some hands k bytes to the running io.ReadFull; when the
\* field is full Read goes on to its next read or returns
RecvSome(e, k) ==
    /\ Reading(e)
    /\ k >= 1
    /\ k <= Min(Need(rd[e]) - Len(rd[e].got), Avail(e))
    /\ LET r == rd[e]
           got == r.got \o SubSeq(wire[Peer(e)], rpos[e] + 1, rpos[e] + k)
           val == FieldValue(got, Need(r))
           refused == r.pc = "size" /\ FieldComplete(got, Need(r))
                        /\ BufTooSmall(r.plen, FromLE16(val))
           skip == IF refused THEN Discard(FromLE16(val), Avail(e) - k) ELSE 0
           used == rpos[e] + k + skip - r.start
           reads == r.reads + 1
       IN  /\ rpos' = [rpos EXCEPT ![e] = @ + k + skip]
           /\ IF ~FieldComplete(got, Need(r))
              THEN /\ rd' = [rd EXCEPT ![e].got = got, ![e].reads = reads]
                   /\ UNCHANGED res
              ELSE IF r.pc = "nonce"
              THEN /\ rd' = [rd EXCEPT ![e].pc = "size", ![e].nonce = val, ![e].got = <<>>,
                                        ![e].reads = reads]
                   /\ UNCHANGED res
              ELSE IF r.pc = "size"
              THEN IF BufTooSmall(r.plen, FromLE16(val))
                   THEN Return(e, 0, "wrong size", <<>>, used, reads, FALSE)
                   ELSE IF FromLE16(val) = 0
                   THEN LET d == Decode(<<>>, r.nonce, shared[e])
                        IN  Return(e, d.n, d.err, d.data, used, reads, FALSE)
                   ELSE /\ rd' = [rd EXCEPT ![e].pc = "msg", ![e].size = FromLE16(val),
                                             ![e].got = <<>>, ![e].reads = reads]
                        /\ UNCHANGED res
              ELSE LET d == Decode(val, r.nonce, shared[e])
                   IN  Return(e, d.n, d.err, d.data, used, reads, FALSE)
    /\ UNCHANGED << wire, closed, shared, wres, sent, nreads >>

\* the stream has ended and nothing is left: io.ReadFull returns io.EOF or
\* io.ErrUnexpectedEOF and Read returns the error named after the field
RecvEOF(e) ==
    /\ Reading(e)
    /\ Avail(e) = 0
    /\ closed[Peer(e)]
    /\ LET o == EofResult(rd[e])
       IN  Return(e, o.n, o.err, o.data, rpos[e] - rd[e].start, rd[e].reads, TRUE)
    /\ UNCHANGED << wire, closed, rpos, shared, wres, sent, nreads >>

\* a transport that hands over every byte asked for
RecvAll(e) == RecvSome(e, Min(Need(rd[e]) - Len(rd[e].got), Avail(e)))

\* ------------------------------------------------------------ environment
\* the stream written by e ends (the peer closes, the connection drops)
CloseStream(e) ==
    /\ ~closed[e]
    /\ closed' = [closed EXCEPT ![e] = TRUE]
    /\ UNCHANGED << wire, rpos, shared, rd, res, wres, sent, nreads >>

CipherStart(f) == f.start + NonceSize + 2
FrameEnd(f) == f.start + f.given

\* someone on the path flips bit b of the byte at offset pos (1-based) of the
\* stream written by e: pos lies in the ciphertext of the complete frame i, has
\* not been read yet, and no other bit was flipped
Tamper(e, i, pos, b) ==
    /\ \A j \in 1..Len(sent[e]) : ~sent[e][j].flipped
    /\ i \in 1..Len(sent[e])
    /\ sent[e][i].err = "nil"
    /\ pos > CipherStart(sent[e][i])
    /\ pos <= FrameEnd(sent[e][i])
    /\ pos > rpos[Peer(e)]
    /\ wire' = [wire EXCEPT ![e][pos] = FlipBit(@, b)]
    /\ sent' = [sent EXCEPT ![e][i].flipped = TRUE]
    /\ UNCHANGED << closed, rpos, shared, rd, res, wres, nreads >>

\* ----------------------------------------------------------- test inputs
PrivKeys == { KeyBytes(3), KeyBytes(5) }
NonceSeeds == { 0, 100 }
Nonces == { Pattern(s, NonceSize) : s \in NonceSeeds }
Msgs == { [seed |-> 64, len |-> n] : n \in 0..MaxLen } \cup { [seed |-> 254, len |-> MaxLen] }
Plain(m) == Pattern(m.seed, m.len)
BufLens == (0..MaxLen) \cup { MaxMessageSize }
Faults(m) == { [at |-> 1, acc |-> a] : a \in {0, 10} } \cup
             { [at |-> 2, acc |-> a] : a \in {0, 1} } \cup
             { [at |-> 3, acc |-> a] : a \in {0, m.len + Overhead - 1} }

\* A Writer at the client and a Reader at the server over one stream, as
\* NewWriter(w, a, PubOf(b)) and NewReader(r, b, PubOf(c)) build them: the
\* key pairs match when c = a.
LibInit(A, B, C) ==
    /\ wire = [e \in End |-> <<>>]
    /\ closed = [e \in End |-> FALSE]
    /\ rpos = [e \in End |-> 0]
    /\ \E a \in A, b \in B, c \in C :
          shared = [e \in End |-> IF e = "client" THEN Precompute(PubOf(b), a)
                                                  ELSE Precompute(PubOf(c), b)]
    /\ rd = [e \in End |-> Idle]
    /\ res = [e \in End |-> NoRes]
    /\ wres = [e \in End |-> NoWRes]
    /\ sent = [e \in End |-> <<>>]
    /\ nreads = [e \in End |-> 0]
    /\ msgs = <<>>
    /\ pc = [e \in End |-> "lib"]
    /\ priv = [e \in End |-> <<>>]
    /\ kbuf = [e \in End |-> <<>>]
    /\ kout = [e \in End |-> 0]
    /\ conn = [e \in End |-> "none"]
    /\ served = <<>>

\* the test hands message m to the client's Write
Send(m, nonce, randOK, fault) ==
    /\ Write("client", Plain(m), nonce, randOK, fault)
    /\ msgs' = Append(msgs, m)

\* ------------------------------------------------- byte-level specification
\* One call of Write with every outcome of its transport writes, the stream
\* ending at any time, and Read with every chunking of the transport's reads.
Init == LibInit({KeyBytes(3)}, {KeyBytes(5)}, PrivKeys)

WriteOnce ==
    /\ msgs = <<>>
    /\ UNCHANGED hs
    /\ \E m \in Msgs, n \in Nonces :
          \/ Send(m, n, TRUE, NoFault)
          \/ Send(m, n, FALSE, NoFault)
          \/ \E f \in Faults(m) : Send(m, n, TRUE, f)

Next ==
    \/ WriteOnce
    \/ (\E plen \in BufLens : ReadCall("server", plen)) /\ UNCHANGED << msgs, hs >>
    \/ (\E k \in 1..(MaxLen + NonceSize) : RecvSome("server", k)) /\ UNCHANGED << msgs, hs >>
    \/ RecvEOF("server") /\ UNCHANGED << msgs, hs >>
    \/ CloseStream("client") /\ UNCHANGED << msgs, hs >>

Spec == Init /\ [][Next]_vars

\* ------------------------------------------------------ tamper specification
\* One complete frame, one bit of its ciphertext flipped on the way, and Read
\* on a transport that hands over every byte asked for.
TamperBits == 0..7

InitMatch == LibInit({KeyBytes(3)}, {KeyBytes(5)}, {KeyBytes(3)})

WriteFrame ==
    /\ msgs = <<>>
    /\ UNCHANGED hs
    /\ \E m \in Msgs, n \in Nonces : Send(m, n, TRUE, NoFault)

NextTamper ==
    \/ WriteFrame
    \/ (\E pos \in 1..(NonceSize + 2 + Overhead + MaxLen), b \in TamperBits :
          Tamper("client", 1, pos, b)) /\ UNCHANGED << msgs, hs >>
    \/ (\E plen \in BufLens : ReadCall("server", plen)) /\ UNCHANGED << msgs, hs >>
    \/ RecvAll("server") /\ UNCHANGED << msgs, hs >>

SpecTamper == InitMatch /\ [][NextTamper]_vars

\* ------------------------------------------------------ length specification
\* Plaintexts and buffers at the edges of MaxMessageSize and of uint16: one
\* call of Write, then Read on a transport that hands over every byte asked
\* for.
BigLens == { 0, 1, MaxMessageSize, MaxMessageSize + 1,
             UInt16Mod - Overhead - 1, UInt16Mod - Overhead }
BigMsgs == { [seed |-> 64, len |-> n] : n \in BigLens }
BigBufLens == { 1, MaxMessageSize, UInt16Mod - 1, UInt16Mod }

WriteBig ==
    /\ msgs = <<>>
    /\ UNCHANGED hs
    /\ \E m \in BigMsgs : Send(m, Pattern(0, NonceSize), TRUE, NoFault)

ReadBig ==
    /\ msgs # <<>>
    /\ \E plen \in BigBufLens : ReadCall("server", plen)
    /\ UNCHANGED << msgs, hs >>

NextBig ==
    \/ WriteBig
    \/ ReadBig
    \/ RecvAll("server") /\ UNCHANGED << msgs, hs >>
    \/ RecvEOF("server") /\ UNCHANGED << msgs, hs >>
    \/ CloseStream("client") /\ UNCHANGED << msgs, hs >>

SpecBig == InitMatch /\ [][NextBig]_vars

\* ------------------------------------------------- sequence specification
\* One Writer makes up to MaxWrites calls of Write, one Reader reads them with
\* buffers of MaxMessageSize bytes; the transport hands over each field whole
\* or in two pieces, and the stream may end at any time.
MaxWrites == 2

SeqMsgs == { [seed |-> 64, len |-> 1], [seed |-> 254, len |-> MaxLen] }

RandNonces == { Pattern(s, NonceSize) : s \in { 0, 100, 200 } }

\* var nonce [NonceSize]byte before rand.Read fills it
ZeroNonce == AsSeq([i \in 1..NonceSize |-> 0])

\* what e's successful calls of rand.Read have returned so far
Drawn(e) == { sent[e][i].nonce : i \in { j \in 1..Len(sent[e]) : sent[e][j].rand } }

\* the secure random source: 24 bytes it has not returned before (it repeats
\* a value with negligible probability only), or a failure
RandRead(e) == RandNonces \ Drawn(e)

WriteSeq ==
    /\ Len(msgs) < MaxWrites
    /\ UNCHANGED hs
    /\ \E m \in SeqMsgs :
          \/ \E n \in RandRead("client") : Send(m, n, TRUE, NoFault)
          \/ Send(m, ZeroNonce, FALSE, NoFault)

ReadSeq == ReadCall("server", MaxMessageSize) /\ UNCHANGED << msgs, hs >>

NextSeq ==
    \/ WriteSeq
    \/ ReadSeq
    \/ (\E k \in { 1, NonceSize - 1 } : Reading("server") /\ rd["server"].got = <<>>
                                          /\ RecvSome("server", k)) /\ UNCHANGED << msgs, hs >>
    \/ RecvAll("server") /\ UNCHANGED << msgs, hs >>
    \/ RecvEOF("server") /\ UNCHANGED << msgs, hs >>
    \/ CloseStream("client") /\ UNCHANGED << msgs, hs >>

SpecSeq == InitMatch /\ [][NextSeq]_vars

\* ------------------------------------------------- refused-frame specification
\* Two frames on the stream, read with a buffer too small for the first one
\* or with one of MaxMessageSize bytes.
SkipBufLens == { 0, MaxMessageSize }

WriteSkip ==
    /\ Len(msgs) < 2
    /\ UNCHANGED hs
    /\ \E m \in SeqMsgs, n \in RandRead("client") : Send(m, n, TRUE, NoFault)

ReadSkip ==
    /\ Len(msgs) = 2
    /\ \E plen \in SkipBufLens : ReadCall("server", plen)
    /\ UNCHANGED << msgs, hs >>

NextSkip ==
    \/ WriteSkip
    \/ ReadSkip
    \/ RecvAll("server") /\ UNCHANGED << msgs, hs >>
    \/ RecvEOF("server") /\ UNCHANGED << msgs, hs >>
    \/ CloseStream("client") /\ UNCHANGED << msgs, hs >>

SpecSkip == InitMatch /\ [][NextSkip]_vars

\* ------------------------------------------------- dial, serve, main
\* after conn.Write(pub[:]): dial returns nil, err and handleConnection
\* returns when the write failed, else each goes on to read the peer's key
KeyWriteNextUnchecked(e, err) == "readkey"

KeyWriteNext(e, err) ==
    IF err THEN (IF e = "client" THEN "failed" ELSE "returned") ELSE "readkey"

\* each side waiting for the peer's key before it sends its own
FirstStepRead(e) == "readkey"

\* with the connection in hand, dial and handleConnection first send their
\* public key
FirstStep(e) == "writekey"

\* box.GenerateKey in dial: the key pair, or dial returns nil, err
DialGenerateKey ==
    /\ pc["client"] = "start"
    /\ \/ \E k \in PrivKeys :
             /\ priv' = [priv EXCEPT !["client"] = k]
             /\ pc' = [pc EXCEPT !["client"] = "connect"]
       \/ /\ pc' = [pc EXCEPT !["client"] = "failed"]
          /\ UNCHANGED priv
    /\ UNCHANGED << wire, closed, rpos, shared, rd, res, wres, sent, nreads, msgs, served, kbuf,
                    kout, conn >>

\* net.Dial: the connection, or dial returns nil, err
DialConnect ==
    /\ pc["client"] = "connect"
    /\ \/ /\ conn' = [e \in End |-> "open"]
          /\ pc' = [pc EXCEPT !["client"] = FirstStep("client")]
       \/ /\ pc' = [pc EXCEPT !["client"] = "failed"]
          /\ UNCHANGED conn
    /\ UNCHANGED << wire, closed, rpos, shared, rd, res, wres, sent, nreads, msgs, served, priv,
                    kbuf, kout >>

\* box.GenerateKey in serve, before the accept loop: the key pair, or serve
\* returns the error
ServeGenerateKey ==
    /\ pc["server"] = "start"
    /\ \/ \E k \in PrivKeys :
             /\ priv' = [priv EXCEPT !["server"] = k]
             /\ pc' = [pc EXCEPT !["server"] = "accept"]
       \/ /\ pc' = [pc EXCEPT !["server"] = "returned"]
          /\ UNCHANGED priv
    /\ UNCHANGED << wire, closed, rpos, shared, rd, res, wres, sent, nreads, msgs, served, kbuf,
                    kout, conn >>

\* l.Accept hands over the connection and handleConnection starts
Accept ==
    /\ pc["server"] = "accept"
    /\ conn["server"] = "open"
    /\ pc' = [pc EXCEPT !["server"] = FirstStep("server")]
    /\ UNCHANGED << wire, closed, rpos, shared, rd, res, wres, sent, nreads, msgs, served, priv,
                    kbuf, kout, conn >>

\* conn.Write(pub[:]), the transport taking acc of the KeySize bytes
WriteKey(e, acc) ==
    /\ pc[e] = "writekey"
    /\ acc \in 0..KeySize
    /\ closed[e] => acc = 0
    /\ wire' = [wire EXCEPT ![e] = @ \o SubSeq(PubOf(priv[e]), 1, acc)]
    /\ kout' = [kout EXCEPT ![e] = acc]
    /\ pc' = [pc EXCEPT ![e] = KeyWriteNext(e, TransportErr(acc, KeySize))]
    /\ UNCHANGED << closed, rpos, shared, rd, res, wres, sent, nreads, msgs, served, priv, kbuf,
                    conn >>

\* the Reader and Writer built on the own public key instead of the peer's
SessionKeyOwnPub(peerPub, privKey) == Precompute(PubOf(privKey), privKey)

\* secure.NewReader(conn, priv, &peerPub) and secure.NewWriter(conn, priv,
\* &peerPub): the shared secret both hold
SessionKey(peerPub, privKey) == Precompute(peerPub, privKey)

\* io.ReadFull(conn, peerPub[:]) gets k more bytes; with the key complete,
\* NewReader and NewWriter are built on it
ReadKeySome(e, k) ==
    /\ pc[e] = "readkey"
    /\ k >= 1
    /\ k <= Min(KeySize - Len(kbuf[e]), Avail(e))
    /\ LET got == kbuf[e] \o SubSeq(wire[Peer(e)], rpos[e] + 1, rpos[e] + k)
       IN  /\ kbuf' = [kbuf EXCEPT ![e] = got]
           /\ rpos' = [rpos EXCEPT ![e] = @ + k]
           /\ IF FieldComplete(got, KeySize)
              THEN /\ shared' = [shared EXCEPT ![e] =
                                   SessionKey(FieldValue(got, KeySize), priv[e])]
                   /\ pc' = [pc EXCEPT ![e] = IF e = "client" THEN "ready" ELSE "read"]
              ELSE UNCHANGED << shared, pc >>
    /\ UNCHANGED << wire, closed, rd, res, wres, sent, nreads, msgs, served, priv, kout, conn >>

\* the stream ends before the peer's key is complete: dial returns nil, err;
\* handleConnection returns, and its deferred c.Close() is due
ReadKeyEOF(e) ==
    /\ pc[e] = "readkey"
    /\ Avail(e) = 0
    /\ closed[Peer(e)]
    /\ pc' = [pc EXCEPT ![e] = IF e = "client" THEN "failed" ELSE "closing"]
    /\ UNCHANGED << wire, closed, rpos, shared, rd, res, wres, sent, nreads, msgs, served, priv,
                    kbuf, kout, conn >>

\* the transport writes of the echo that may fail: the first, as on a dropped
\* connection, or the last
EchoFaults == { [at |-> 1, acc |-> 0], [at |-> 3, acc |-> 0] }

\* handleConnection: n, err := sr.Read(buf[:]) with buf of MaxMessageSize bytes
ServerRead ==
    /\ pc["server"] = "read"
    /\ ReadCall("server", MaxMessageSize)
    /\ pc' = [pc EXCEPT !["server"] = "reading"]
    /\ UNCHANGED << msgs, served, priv, kbuf, kout, conn >>

\* the echo one byte short
EchoBytesShort(r) == SubSeq(r.data, 1, r.n - 1)

\* buf[:n], what handleConnection hands to sw.Write after sr.Read returned n
EchoBytes(r) == r.data

\* a handler that goes back to sr.Read after a successful echo
EchoNextLoops(werr) == IF werr = "nil" THEN "read" ELSE "closing"

\* after sw.Write handleConnection returns, whatever Write gave: there is no
\* loop around the echo
EchoNext(werr) == "closing"

\* handleConnection after sr.Read returned: on an error it returns, else it
\* calls sw.Write(buf[:n]) and returns whatever that gives
ServerEcho ==
    /\ pc["server"] = "reading"
    /\ res["server"].done
    /\ IF res["server"].err # "nil"
       THEN UNCHANGED << wire, closed, rpos, shared, rd, res, wres, sent, nreads >>
       ELSE \E n \in Nonces :
               \/ Write("server", EchoBytes(res["server"]), n, TRUE, NoFault)
               \/ Write("server", EchoBytes(res["server"]), n, FALSE, NoFault)
               \/ \E f \in EchoFaults : Write("server", EchoBytes(res["server"]), n, TRUE, f)
    /\ pc' = [pc EXCEPT !["server"] = IF res["server"].err # "nil" THEN "closing"
                                      ELSE EchoNext(wres'["server"].err)]
    /\ UNCHANGED << msgs, served, priv, kbuf, kout, conn >>

\* the deferred c.Close() as handleConnection returns
ServerClose ==
    /\ pc["server"] = "closing"
    /\ pc' = [pc EXCEPT !["server"] = "returned"]
    /\ conn' = [conn EXCEPT !["server"] = "closed"]
    /\ closed' = [closed EXCEPT !["server"] = TRUE]
    /\ UNCHANGED << wire, rpos, shared, rd, res, wres, sent, nreads, msgs, served, priv, kbuf, kout >>

\* main: conn.Write([]byte(os.Args[2])) on the connection dial returned
ClientSend ==
    /\ pc["client"] = "ready"
    /\ \E m \in Msgs, n \in Nonces :
          \/ Send(m, n, TRUE, NoFault)
          \/ Send(m, n, TRUE, [at |-> 1, acc |-> 0])
    /\ pc' = [pc EXCEPT !["client"] = "sent"]
    /\ UNCHANGED << served, priv, kbuf, kout, conn >>

\* main: conn.Read(buf) with buf of len(os.Args[2]) bytes, after a Write
\* without error; TestSecureEchoServer reads into a larger buffer
ClientRead ==
    /\ pc["client"] = "sent"
    /\ wres["client"].err = "nil"
    /\ \E plen \in {msgs[1].len, MaxMessageSize} : ReadCall("client", plen)
    /\ pc' = [pc EXCEPT !["client"] = "reading"]
    /\ UNCHANGED << msgs, served, priv, kbuf, kout, conn >>

\* main ends, by log.Fatal after a failed Write or Read or after printing the
\* echo: the process exits and its end of the connection goes with it
ClientExit ==
    /\ \/ pc["client"] = "sent" /\ wres["client"].err # "nil"
       \/ pc["client"] = "reading" /\ res["client"].done
    /\ pc' = [pc EXCEPT !["client"] = "exited"]
    /\ conn' = [conn EXCEPT !["client"] = "closed"]
    /\ closed' = [closed EXCEPT !["client"] = TRUE]
    /\ UNCHANGED << wire, rpos, shared, rd, res, wres, sent, nreads, msgs, served, priv, kbuf, kout >>

\* the network drops the connection: both streams end
Cut ==
    /\ conn["client"] = "open"
    /\ \E e \in End : ~closed[e]
    /\ closed' = [e \in End |-> TRUE]
    /\ UNCHANGED << wire, rpos, shared, rd, res, wres, sent, nreads, msgs, hs >>

\* --------------------------------------------------- connection specification
\* One client (dial, then main's Write and Read) and one connection of the
\* server (serve, handleConnection) over a transport that may take part of a
\* key write, deliver the keys in pieces, and drop the connection at any time.
KeyAccs == { 0, 10, KeySize }
KeyChunks == { 1, KeySize - 1, KeySize }

InitConn ==
    /\ wire = [e \in End |-> <<>>]
    /\ closed = [e \in End |-> FALSE]
    /\ rpos = [e \in End |-> 0]
    /\ shared = [e \in End |-> <<>>]
    /\ rd = [e \in End |-> Idle]
    /\ res = [e \in End |-> NoRes]
    /\ wres = [e \in End |-> NoWRes]
    /\ sent = [e \in End |-> <<>>]
    /\ nreads = [e \in End |-> 0]
    /\ msgs = <<>>
    /\ pc = [e \in End |-> "start"]
    /\ priv = [e \in End |-> <<>>]
    /\ kbuf = [e \in End |-> <<>>]
    /\ kout = [e \in End |-> 0]
    /\ conn = [e \in End |-> "none"]
    /\ served = <<>>

NextConn ==
    \/ DialGenerateKey
    \/ DialConnect
    \/ ServeGenerateKey
    \/ Accept
    \/ \E e \in End, acc \in KeyAccs : WriteKey(e, acc)
    \/ \E e \in End, k \in KeyChunks : ReadKeySome(e, k)
    \/ \E e \in End : ReadKeyEOF(e)
    \/ ServerRead
    \/ ServerEcho
    \/ ServerClose
    \/ ClientSend
    \/ ClientRead
    \/ ClientExit
    \/ (\E e \in End : RecvAll(e)) /\ UNCHANGED << msgs, hs >>
    \/ (\E e \in End : RecvEOF(e)) /\ UNCHANGED << msgs, hs >>
    \/ Cut

SpecConn == InitConn /\ [][NextConn]_vars

\* ---------------------------------------------------- raw-client specification
\* The server of the connection specification, facing either the client of
\* dial or a client that skips the handshake, as TestSecureServe does: it
\* connects with net.Dial, sends bytes of its own choosing and closes.
RawInputs ==
    { Pattern(64, 12),
      Pattern(64, KeySize + NonceSize + 2 + Overhead + MaxLen),
      Pattern(64, KeySize + NonceSize) \o LE16(Overhead + MaxLen) \o Pattern(7, Overhead + MaxLen) }

\* net.Dial of the test
RawConnect ==
    /\ pc["client"] = "start"
    /\ conn' = [e \in End |-> "open"]
    /\ pc' = [pc EXCEPT !["client"] = "raw"]
    /\ UNCHANGED << wire, closed, rpos, shared, rd, res, wres, sent, nreads, msgs, served, priv,
                    kbuf, kout >>

\* fmt.Fprintf(conn, unexpected): the bytes go out as they are
RawSend(b) ==
    /\ pc["client"] = "raw"
    /\ ~closed["client"]
    /\ wire["client"] = <<>>
    /\ wire' = [wire EXCEPT !["client"] = b]
    /\ UNCHANGED << closed, rpos, shared, rd, res, wres, sent, nreads, msgs, hs >>

\* the test ends and its connection goes with it
RawClose ==
    /\ pc["client"] = "raw"
    /\ pc' = [pc EXCEPT !["client"] = "exited"]
    /\ conn' = [conn EXCEPT !["client"] = "closed"]
    /\ closed' = [closed EXCEPT !["client"] = TRUE]
    /\ UNCHANGED << wire, rpos, shared, rd, res, wres, sent, nreads, msgs, served, priv, kbuf, kout >>

NextRaw ==
    \/ NextConn
    \/ RawConnect
    \/ \E b \in RawInputs : RawSend(b)
    \/ RawClose

SpecRaw == InitConn /\ [][NextRaw]_vars

\* ------------------------------------------------------ fair specification
\* The handshake of an honest client and server on a reliable transport: key
\* generation and net.Dial succeed, the transport takes every key write whole
\* and nothing drops the connection.  The client's process and the server's
\* goroutine each keep being scheduled, and the transport keeps delivering
\* what was written, in pieces of any size.
ClientLive ==
    \/ DialGenerateKey /\ pc'["client"] # "failed"
    \/ DialConnect /\ pc'["client"] # "failed"
    \/ WriteKey("client", KeySize)
    \/ \E k \in KeyChunks : ReadKeySome("client", k)

ServerLive ==
    \/ ServeGenerateKey /\ pc'["server"] # "returned"
    \/ Accept
    \/ WriteKey("server", KeySize)
    \/ \E k \in KeyChunks : ReadKeySome("server", k)

NextLive == ClientLive \/ ServerLive

SpecLive == InitConn /\ [][NextLive]_vars /\ WF_vars(ClientLive) /\ WF_vars(ServerLive)

\* ------------------------------------------------- two-message specification
\* The connection specification with a client that, like a test holding the
\* connection dial returned, writes a second message on it.
ClientSendAgain ==
    /\ pc["client"] = "sent"
    /\ wres["client"].err = "nil"
    /\ Len(msgs) = 1
    /\ \E m \in SeqMsgs, n \in Nonces :
          \/ Send(m, n, TRUE, NoFault)
          \/ Send(m, n, TRUE, [at |-> 1, acc |-> 0])
    /\ UNCHANGED << pc, priv, kbuf, kout, conn, served >>

NextTwo == NextConn \/ ClientSendAgain

SpecTwo == InitConn /\ [][NextTwo]_vars

\* ------------------------------------------------- accept-loop specification
\* serve with up to MaxConns connections accepted, their handlers running
\* side by side; each handler's steps are those of handleConnection above,
\* here without the bytes.
MaxConns == 2

ClientKeys == PrivKeys \cup { KeyBytes(7) }

Conns == 1..Len(served)

\* serve's loop: conn, err := l.Accept(); go handleConnection(conn, pub, priv),
\* pub and priv pointing to the key pair serve generated before the loop
AcceptNext ==
    /\ pc["server"] = "accept"
    /\ Len(served) < MaxConns
    /\ served' = Append(served, [priv |-> priv["server"], step |-> FirstStep("server"),
                                  pub |-> <<>>, peer |-> <<>>, shared |-> <<>>])
    /\ UNCHANGED << wire, closed, rpos, shared, rd, res, wres, sent, nreads, msgs, pc, priv,
                    kbuf, kout, conn >>

\* handler k: c.Write(pub[:]), failing or not
HandlerWriteKey(k, ok) ==
    /\ served[k].step = "writekey"
    /\ served' = [served EXCEPT ![k].step = KeyWriteNext("server", ~ok),
                                ![k].pub = IF ok THEN PubOf(served[k].priv) ELSE <<>>]
    /\ UNCHANGED << wire, closed, rpos, shared, rd, res, wres, sent, nreads, msgs, pc, priv,
                    kbuf, kout, conn >>

\* handler k: io.ReadFull(c, peerPub[:]) gets the public key of a client whose
\* private key is c, then NewReader and NewWriter are built
HandlerReadKey(k, c) ==
    /\ served[k].step = "readkey"
    /\ served' = [served EXCEPT ![k].step = "read",
                                ![k].peer = PubOf(c),
                                ![k].shared = SessionKey(PubOf(c), served[k].priv)]
    /\ UNCHANGED << wire, closed, rpos, shared, rd, res, wres, sent, nreads, msgs, pc, priv,
                    kbuf, kout, conn >>

\* handler k: the client's key does not arrive
HandlerReadKeyEOF(k) ==
    /\ served[k].step = "readkey"
    /\ served' = [served EXCEPT ![k].step = "closing"]
    /\ UNCHANGED << wire, closed, rpos, shared, rd, res, wres, sent, nreads, msgs, pc, priv,
                    kbuf, kout, conn >>

\* handler k: sr.Read and sw.Write, whatever they return
HandlerEcho(k) ==
    /\ served[k].step = "read"
    /\ served' = [served EXCEPT ![k].step = "closing"]
    /\ UNCHANGED << wire, closed, rpos, shared, rd, res, wres, sent, nreads, msgs, pc, priv,
                    kbuf, kout, conn >>

\* handler k: the deferred c.Close() as it returns
HandlerClose(k) ==
    /\ served[k].step = "closing"
    /\ served' = [served EXCEPT ![k].step = "returned"]
    /\ UNCHANGED << wire, closed, rpos, shared, rd, res, wres, sent, nreads, msgs, pc, priv,
                    kbuf, kout, conn >>

NextServe ==
    \/ ServeGenerateKey
    \/ AcceptNext
    \/ \E k \in Conns, ok \in BOOLEAN : HandlerWriteKey(k, ok)
    \/ \E k \in Conns, c \in ClientKeys : HandlerReadKey(k, c)
    \/ \E k \in Conns : HandlerReadKeyEOF(k)
    \/ \E k \in Conns : HandlerEcho(k)
    \/ \E k \in Conns : HandlerClose(k)

SpecServe == InitConn /\ [][NextServe]_vars

\* ------------------------------------------------ Read on the whole stream
\* What Read(p) with len(p) = plen returns on the stream s that ends after its
\* last byte, when the transport delivers all of s at once: the reference the
\* chunked reads are compared with.
ReadWhole(s, plen, sh) ==
    IF Len(s) < NonceSize
    THEN [n |-> 0, err |-> "nonce", data |-> <<>>, used |-> Len(s)]
    ELSE IF Len(s) < NonceSize + 2
    THEN [n |-> 0, err |-> "size", data |-> <<>>, used |-> Len(s)]
    ELSE LET nonce == SubSeq(s, 1, NonceSize)
             size == FromLE16(SubSeq(s, NonceSize + 1, NonceSize + 2))
             d == Decode(SubSeq(s, NonceSize + 3, NonceSize + 2 + size), nonce, sh)
         IN  IF BufTooSmall(plen, size)
             THEN [n |-> 0, err |-> "wrong size", data |-> <<>>, used |-> NonceSize + 2]
             ELSE IF Len(s) < NonceSize + 2 + size
             THEN [n |-> 0, err |-> "msg", data |-> <<>>, used |-> Len(s)]
             ELSE [n |-> d.n, err |-> d.err, data |-> d.data, used |-> NonceSize + 2 + size]

\* ------------------------------------------------------------------ claims
FrameIds == 1..Len(msgs)
Frame(i) == sent["client"][i]
Got == res["server"]
KeysMatch == shared["client"] = shared["server"]
FrameLen(f) == NonceSize + 2 + f.len + Overhead
Bytes(a, n) == SubSeq(wire["client"], a + 1, a + n)
Rest(a) == SubSeq(wire["client"], a + 1, Len(wire["client"]))

\* the server's last Read started at the first byte of the complete frame i
ReadOf(i) == Got.done /\ Got.start = Frame(i).start /\ Frame(i).err = "nil"

\* C1: a plaintext of at most MaxMessageSize bytes written by a Writer and read
\* by a Reader with the matching key pair into a buffer of MaxMessageSize bytes
\* comes back whole: Read returns its length, no error, and exactly its bytes.
C1_RoundTrip ==
    \A i \in FrameIds :
        (ReadOf(i) /\ KeysMatch /\ Frame(i).len <= MaxMessageSize /\ Got.plen = MaxMessageSize)
            => (Got.n = Frame(i).len /\ Got.err = "nil" /\ Got.data = Plain(msgs[i]))

C1_Witness ==
    \E i \in FrameIds :
        /\ ReadOf(i) /\ KeysMatch /\ Got.plen = MaxMessageSize
        /\ Frame(i).len = 1 /\ Got.n = 1 /\ Got.err = "nil" /\ Got.data = Plain(msgs[i])

C3_WireFormat ==
    \A i \in FrameIds :
        Frame(i).err = "nil" =>
            LET f == Frame(i)
                c == Bytes(f.start + NonceSize + 2, f.len + Overhead)
                field == Bytes(f.start + NonceSize, 2)
            IN  /\ Len(wire["client"]) = f.start + FrameLen(f)
                /\ f.acc = FrameLen(f)
                /\ Bytes(f.start, NonceSize) = f.nonce
                /\ field[1] = Len(c) % ByteMod
                /\ field[2] = Len(c) \div ByteMod
                /\ Len(c) = f.len + Overhead
                /\ c = Seal(Plain(msgs[i]), f.nonce, shared["client"])
                /\ c # Plain(msgs[i])

C3_Witness ==
    \E i \in FrameIds :
        /\ Frame(i).err = "nil" /\ Frame(i).len = MaxLen
        /\ Len(wire["client"]) = FrameLen(Frame(i))
        /\ Bytes(NonceSize, 2) = << MaxLen + Overhead, 0 >>

\* C4: Write refuses a plaintext longer than MaxMessageSize: it returns the
\* error MessageTooLarge and puts nothing on the wire.
C4_OversizedRejected ==
    \A i \in FrameIds :
        Frame(i).len > MaxMessageSize => (Frame(i).err = "MessageTooLarge" /\ Frame(i).acc = 0)

\* C5: the length field of every frame Write puts on the wire is the number of
\* ciphertext bytes that follow it; it never wraps around.
C5_LengthFieldExact ==
    \A i \in FrameIds :
        Frame(i).err = "nil" =>
            FromLE16(Bytes(Frame(i).start + NonceSize, 2)) = Frame(i).acc - NonceSize - 2

\* C6: Read never hands over part of a message: its count is between 0 and
\* len(p) and counts exactly the bytes it stored, an error comes with count 0
\* and no bytes, a frame whose plaintext is longer than p is refused with the
\* size error, and a Read without error delivers the frame's whole plaintext.
C6_NoSilentTruncation ==
    /\ Got.done =>
          /\ Got.n >= 0 /\ Got.n <= Got.plen
          /\ Len(Got.data) = Got.n
          /\ (Got.err # "nil" => Got.n = 0)
    /\ \A i \in FrameIds :
          ReadOf(i) =>
             /\ Frame(i).len > Got.plen => (Got.err = "wrong size" /\ Got.n = 0)
             /\ Got.err = "nil" => (Got.n = Frame(i).len /\ Len(Got.data) = Frame(i).len)

C6_Witness ==
    \E i \in FrameIds :
        /\ ReadOf(i) /\ Frame(i).len = MaxLen /\ Got.plen = MaxLen - 1
        /\ Got.err = "wrong size" /\ Got.n = 0

\* C7: when the stream ends inside a frame (or before one), Read does not wait:
\* it returns count 0, no bytes, and the error of the field it was reading.
C7_TruncatedStream ==
    /\ (Reading("server") /\ closed["client"] /\ Avail("server") = 0) => ENABLED RecvEOF("server")
    /\ (Got.done /\ Got.eof) =>
          /\ Got.n = 0
          /\ Got.data = <<>>
          /\ Got.err \in {"nonce", "size", "msg"}
          /\ Got.used < NonceSize => Got.err = "nonce"
          /\ (Got.used >= NonceSize /\ Got.used < NonceSize + 2) => Got.err = "size"
          /\ Got.used >= NonceSize + 2 => Got.err = "msg"
    /\ \A i \in FrameIds :
          (Got.done /\ Got.start = Frame(i).start /\ Frame(i).acc < FrameLen(Frame(i)))
              => (Got.n = 0 /\ Got.err # "nil" /\ Got.data = <<>>)

C7_Witness ==
    /\ Got.done /\ Got.eof /\ Got.err = "msg" /\ Got.n = 0
    /\ Got.used > NonceSize + 2
    /\ Got.start + Got.used = Len(wire["client"])

\* C8: what Read returns, and how much of the stream it consumes, does not
\* depend on how the transport cuts the stream into reads: it is what Read
\* returns when the whole stream arrives at once.
C8_ChunkingIndependent ==
    Got.done =>
        LET w == ReadWhole(Rest(Got.start), Got.plen, shared["server"])
        IN  /\ Got.n = w.n
            /\ Got.err = w.err
            /\ Got.data = w.data
            /\ Got.used = w.used

C8_Witness ==
    \E i \in FrameIds :
        /\ ReadOf(i) /\ Got.err = "nil" /\ Got.n = MaxLen /\ ~Got.eof
        /\ Got.reads > 3
        /\ Got.used = FrameLen(Frame(i))

\* C9: Write reports success only when the transport took the whole frame; a
\* transport write that takes fewer bytes than given makes Write return count 0
\* and ErrEncWrite at once, with no retry and no further write.
C9_ShortWrite ==
    \A i \in FrameIds :
        LET f == Frame(i)
        IN  /\ f.err = "nil" => (f.n = f.len /\ f.acc = FrameLen(f) /\ f.calls = 3)
            /\ f.acc < f.given => (f.err = "ErrEncWrite" /\ f.n = 0)
            /\ (f.rand /\ f.fault.at # 0) =>
                  /\ f.err = "ErrEncWrite" /\ f.n = 0
                  /\ f.calls = f.fault.at
                  /\ f.acc = f.fault.acc + (IF f.fault.at > 1 THEN NonceSize ELSE 0)
                                         + (IF f.fault.at > 2 THEN 2 ELSE 0)

C9_Witness ==
    \E i \in FrameIds :
        /\ Frame(i).fault = [at |-> 2, acc |-> 1]
        /\ Frame(i).err = "ErrEncWrite" /\ Frame(i).n = 0
        /\ Frame(i).acc = NonceSize + 1 /\ Frame(i).calls = 2

\* the handshake of e is complete: its own key fully written, the peer's
\* fully read
KeysExchanged(e) == kout[e] = KeySize /\ Len(kbuf[e]) = KeySize

\* C10: on a connection neither dial nor handleConnection writes or reads a
\* frame byte, or builds its Reader and Writer, before it has written its whole
\* 32-byte public key and read the peer's whole 32-byte public key.
C10_HandshakeFirst ==
    \A e \in End :
        /\ (\/ shared[e] # <<>>
            \/ sent[e] # <<>>
            \/ nreads[e] > 0
            \/ Len(wire[e]) > kout[e]
            \/ rpos[e] > Len(kbuf[e])
            \/ pc[e] \in {"ready", "read", "sent", "reading"})
              => /\ KeysExchanged(e)
                 /\ SubSeq(wire[e], 1, KeySize) = PubOf(priv[e])
                 /\ kbuf[e] = SubSeq(wire[Peer(e)], 1, KeySize)
        /\ \A i \in 1..Len(sent[e]) : sent[e][i].start >= KeySize
        /\ res[e].done => res[e].start >= KeySize

C10_Witness ==
    /\ KeysExchanged("client") /\ KeysExchanged("server")
    /\ Len(sent["client"]) = 1 /\ sent["client"][1].start = KeySize
    /\ Len(sent["server"]) = 1 /\ sent["server"][1].start = KeySize
    /\ res["client"].done /\ res["client"].err = "nil" /\ res["client"].start = KeySize
    /\ res["client"].n = MaxLen

\* C11: with an honest client and server on a reliable transport and both
\* scheduled fairly, both reach the state where each has written its key and
\* read the peer's; both writing first and reading second never blocks them.
C11_HandshakeLive == <>(KeysExchanged("client") /\ KeysExchanged("server"))

C11_Witness ==
    /\ KeysExchanged("client") /\ KeysExchanged("server")
    /\ pc["client"] = "ready" /\ pc["server"] = "read"
    /\ rpos["client"] = KeySize /\ rpos["server"] = KeySize

\* C12: when the handshake has succeeded on both sides, the key the client
\* recorded is the server's public key and the key the server recorded is the
\* client's, and the client's Reader and Writer hold the same shared secret as
\* the server's.
C12_KeyAgreement ==
    (shared["client"] # <<>> /\ shared["server"] # <<>>)
        => /\ kbuf["client"] = PubOf(priv["server"])
           /\ kbuf["server"] = PubOf(priv["client"])
           /\ shared["client"] = shared["server"]

C12_Witness ==
    /\ shared["client"] # <<>>
    /\ shared["client"] = shared["server"]
    /\ priv["client"] # priv["server"]
    /\ kbuf["client"] # kbuf["server"]

\* C13: when the stream ends with fewer than 32 bytes of the peer's key read,
\* the handshake fails at once: dial returns its error and no connection,
\* handleConnection returns, neither builds a Reader or Writer or touches a
\* frame, and a shared secret is only ever derived from a whole 32-byte key.
C13_PeerKeyTruncated ==
    \A e \in End :
        /\ (pc[e] = "readkey" /\ closed[Peer(e)] /\ Avail(e) = 0) => ENABLED ReadKeyEOF(e)
        /\ (Len(kbuf[e]) < KeySize /\ pc[e] # "readkey")
              => /\ shared[e] = <<>>
                 /\ sent[e] = <<>>
                 /\ nreads[e] = 0
                 /\ pc[e] \in {"start", "connect", "accept", "writekey", "failed", "closing",
                               "returned"}
        /\ shared[e] # <<>>
              => (Len(kbuf[e]) = KeySize /\ shared[e] = Precompute(kbuf[e], priv[e]))

C13_Witness ==
    /\ pc["client"] = "failed" /\ kout["client"] = KeySize
    /\ Len(kbuf["client"]) = 10 /\ rpos["client"] = 10
    /\ closed["server"] /\ shared["client"] = <<>>

\* no transport write was cut short and the random source always delivered
NoFaults ==
    \A e \in End : \A i \in 1..Len(sent[e]) : sent[e][i].fault = NoFault /\ sent[e][i].rand

\* the echo frame on the wire, as the server's Write logged it
Echo == sent["server"][1]

\* C14: when a client obtained from dial writes a non-empty message m as its
\* first message and its next Read returns, with no transport fault and the
\* connection not dropped: the server's Read decoded exactly m, the server
\* wrote one frame back that seals exactly m, and the client's Read returns
\* len(m), no error and exactly m.
C14_EndToEndEcho ==
    (/\ pc["client"] = "reading" /\ res["client"].done
     /\ ~closed["client"] /\ NoFaults /\ msgs[1].len >= 1)
        => /\ res["server"].done /\ res["server"].err = "nil"
           /\ res["server"].data = Plain(msgs[1])
           /\ Len(sent["server"]) = 1 /\ Echo.err = "nil" /\ Echo.len = msgs[1].len
           /\ SubSeq(wire["server"], Echo.start + NonceSize + 3, Len(wire["server"]))
                 = Seal(Plain(msgs[1]), Echo.nonce, shared["server"])
           /\ res["client"].err = "nil"
           /\ res["client"].n = msgs[1].len
           /\ res["client"].data = Plain(msgs[1])

C14_Witness ==
    /\ pc["client"] = "reading" /\ res["client"].done /\ ~closed["client"] /\ NoFaults
    /\ msgs[1].len = MaxLen /\ res["client"].plen = MaxLen
    /\ res["client"].n = MaxLen /\ res["client"].data = Plain(msgs[1])
    /\ priv["client"] # priv["server"]

\* the client sent bytes without sending a key first
RawClient == kout["client"] = 0 /\ wire["client"] # <<>>

\* the bytes of its public key the server wrote
ServerKeyOut ==
    IF priv["server"] = <<>> THEN <<>> ELSE SubSeq(PubOf(priv["server"]), 1, kout["server"])

\* the bytes the server wrote behind its key
EchoLen == IF sent["server"] = <<>> THEN 0 ELSE sent["server"][1].acc

\* C15: the server sends its public key first, before it reads anything from
\* the client; behind the key it only ever sends one frame of its Writer, whose
\* ciphertext is the sealed box of a plaintext its Reader authenticated, never
\* that plaintext itself; and a client that sent raw bytes instead of a
\* handshake gets the key and nothing else, no part of its bytes coming back.
C15_NoRawEcho ==
    /\ SubSeq(wire["server"], 1, kout["server"]) = ServerKeyOut
    /\ rpos["server"] > 0 => kout["server"] = KeySize
    /\ Len(wire["server"]) = kout["server"] + EchoLen
    /\ Len(sent["server"]) <= 1
    /\ sent["server"] # <<>> =>
          /\ res["server"].done /\ res["server"].err = "nil"
          /\ Echo.len = res["server"].n
          /\ Echo.err = "nil" =>
                /\ SubSeq(wire["server"], Echo.start + 1, Echo.start + NonceSize) = Echo.nonce
                /\ SubSeq(wire["server"], Echo.start + NonceSize + 3, Len(wire["server"]))
                      = Seal(res["server"].data, Echo.nonce, shared["server"])
                /\ SubSeq(wire["server"], Echo.start + NonceSize + 3, Len(wire["server"]))
                      # res["server"].data
    /\ RawClient =>
          /\ sent["server"] = <<>>
          /\ \A a \in 0..(Len(wire["server"]) - Len(wire["client"])) :
                SubSeq(wire["server"], a + 1, a + Len(wire["client"])) # wire["client"]

C15_Witness ==
    /\ RawClient /\ Len(wire["client"]) > KeySize + NonceSize + 2
    /\ pc["server"] = "returned" /\ conn["server"] = "closed"
    /\ res["server"].done /\ res["server"].err = "ErrDecrypt"
    /\ kout["server"] = KeySize /\ wire["server"] = ServerKeyOut


\* the frames whose nonce reached the wire whole
OnWire == { i \in FrameIds : Frame(i).acc >= NonceSize }

\* C16: each call of Write draws its nonce from the random source in that call
\* and puts exactly that nonce on the wire (none is kept in the Writer or used
\* again), so the nonces of the frames one Writer emitted under one shared
\* secret are pairwise distinct; the random source is taken not to repeat a value.
C16_NonceFresh ==
    \A i \in OnWire :
       /\ Frame(i).rand
       /\ Bytes(Frame(i).start, NonceSize) = Frame(i).nonce
       /\ \A j \in OnWire : j # i =>
              /\ Frame(j).nonce # Frame(i).nonce
              /\ Bytes(Frame(j).start, NonceSize) # Bytes(Frame(i).start, NonceSize)

C16_Witness ==
    /\ Len(msgs) = MaxWrites
    /\ OnWire = FrameIds
    /\ msgs[1] = msgs[MaxWrites]
    /\ Len(wire["client"]) = MaxWrites * FrameLen(Frame(1))

\* the calls of Write that returned nil among the first i
Written(i) == { j \in 1..i : Frame(j).err = "nil" }

\* C17: a Read that does not meet the end of the stream succeeds; the k-th
\* successful Read starts where the k-th written frame starts, consumes exactly
\* NonceSize + 2 + length bytes, returns that frame's plaintext, and leaves
\* nothing in the Reader for later calls.
C17_OneFramePerRead ==
    /\ rd["server"].pc = "idle" => rd["server"] = Idle
    /\ Got.done =>
          /\ Got.err = "nil" \/ Got.eof
          /\ rpos["server"] = Got.start + Got.used
          /\ Got.err = "nil" =>
                \E i \in FrameIds :
                   /\ Frame(i).err = "nil"
                   /\ Cardinality(Written(i)) = nreads["server"]
                   /\ Got.start = Frame(i).start
                   /\ Got.used = NonceSize + 2 + FromLE16(Bytes(Got.start + NonceSize, 2))
                   /\ Got.used = FrameLen(Frame(i))
                   /\ Got.n = msgs[i].len
                   /\ Got.data = Plain(msgs[i])

C17_Witness ==
    /\ Len(msgs) = MaxWrites
    /\ Written(MaxWrites) = FrameIds
    /\ msgs[1] # msgs[2]
    /\ nreads["server"] = 2
    /\ Got.done /\ Got.err = "nil"
    /\ Got.start = FrameLen(Frame(1))
    /\ Got.data = Plain(msgs[2])
    /\ Got.reads > 3


\* handleConnection was started on the accepted connection and has returned
HandlerReturned == pc["server"] = "returned" /\ priv["server"] # <<>>

\* C18: whenever handleConnection has returned, on whichever path, the
\* connection has been closed; and it made at most one Read and one Write on
\* the connection (nothing is tried again).
C18_ClosedOnReturn ==
    /\ HandlerReturned => (conn["server"] = "closed" /\ closed["server"])
    /\ nreads["server"] <= 1
    /\ Len(sent["server"]) <= 1


\* C19: every connection serve accepts gets a key pair of its own: no two
\* handlers of one server hold the same private key or send the same public key.
C19_PerConnectionKeys ==
    \A i \in Conns : \A j \in Conns :
       i # j =>
          /\ served[i].priv # served[j].priv
          /\ (served[i].pub # <<>> /\ served[j].pub # <<>>) => served[i].pub # served[j].pub


\* the bytes of the frames the first i calls of Write put on the wire whole
RECURSIVE WrittenLen(_)
WrittenLen(i) ==
    IF i = 0 THEN 0
    ELSE WrittenLen(i - 1) + (IF Frame(i).err = "nil" THEN FrameLen(Frame(i)) ELSE 0)

\* C20: a Write whose nonce the random source could not supply returns
\* (0, error) and hands nothing to the transport: the stream is as long as
\* before the call and ends on a frame boundary, so the frames written after
\* it are read as if the call had not happened.
C20_NonceFailure ==
    /\ Len(wire["client"]) = WrittenLen(Len(msgs))
    /\ \A i \in FrameIds :
          /\ Frame(i).start = WrittenLen(i - 1)
          /\ ~Frame(i).rand =>
                /\ Frame(i).n = 0 /\ Frame(i).err = "nonce"
                /\ Frame(i).calls = 0 /\ Frame(i).acc = 0
    /\ (Got.done /\ ~Got.eof /\ Got.start = 0) =>
          \E i \in FrameIds :
             /\ \A j \in 1..(i - 1) : ~Frame(j).rand
             /\ Frame(i).rand
             /\ Got.err = "nil" /\ Got.data = Plain(msgs[i])

C20_Witness ==
    /\ Len(msgs) = 2
    /\ ~Frame(1).rand
    /\ Frame(2).err = "nil"
    /\ Len(wire["client"]) = FrameLen(Frame(2))
    /\ Got.done /\ Got.err = "nil" /\ Got.start = 0
    /\ Got.data = Plain(msgs[2])


\* C21: a destination buffer at least as long as the plaintext of a well-formed
\* frame is never rejected as too small, buffers of 65536 bytes or more
\* included: the 16-bit size comparison agrees with len(p) >= L.
C21_SufficientBuffer ==
    \A i \in FrameIds :
        (ReadOf(i) /\ Frame(i).len <= MaxMessageSize /\ Got.plen >= Frame(i).len)
            => /\ Got.err # "wrong size"
               /\ ~BufTooSmall(Got.plen, Frame(i).len + Overhead)


\* where the stream stands after the header of frame i
BehindHeader(i) == Frame(i).start + NonceSize + 2

\* C22: a Read that refuses frame i because the buffer is too small has
\* consumed its 26 header bytes and none of its ciphertext, so the stream is
\* left inside the frame; the next Read starts there, takes the bytes that
\* follow (the ciphertext of frame i) as its nonce and length, and does not
\* decode the following frame.
C22_RefusedFramePosition ==
    \A i \in FrameIds :
       /\ (ReadOf(i) /\ Got.err = "wrong size") =>
              /\ Got.used = NonceSize + 2
              /\ rpos["server"] = BehindHeader(i)
              /\ rpos["server"] < FrameEnd(Frame(i))
       /\ (rd["server"].start = BehindHeader(i) /\ rd["server"].pc \in {"size", "msg"}) =>
              /\ rd["server"].nonce = Bytes(BehindHeader(i), NonceSize)
              /\ SubSeq(rd["server"].nonce, 1, Frame(i).len + Overhead)
                    = Seal(Plain(msgs[i]), Frame(i).nonce, shared["client"])
       /\ (rd["server"].start = BehindHeader(i) /\ rd["server"].pc = "msg") =>
              rd["server"].size = FromLE16(Bytes(BehindHeader(i) + NonceSize, 2))
       /\ (Got.done /\ Got.start = BehindHeader(i)) =>
              /\ nreads["server"] >= 2
              /\ Got.err # "nil"
              /\ Got.n = 0 /\ Got.data = <<>>

C22_Witness ==
    /\ Len(msgs) = 2
    /\ Frame(2).err = "nil"
    /\ nreads["server"] = 2
    /\ Got.done
    /\ Got.start = BehindHeader(1)
    /\ Got.plen = MaxMessageSize
    /\ Got.used > NonceSize + 2
    /\ Got.err = "msg"


\* dial has returned nil and an error
DialFailed == pc["client"] = "failed"

\* C23: when dial returns an error after net.Dial gave it the connection (its
\* key write failed, or the server's key did not arrive whole), it has closed
\* the connection.
C23_DialReleases == DialFailed => conn["client"] # "open"


\* C24: after the handshake handleConnection makes one Read and at most one
\* Write, then closes the connection; of a second message the client sends on
\* the same connection the server reads no byte, and it echoes nothing of it.
C24_OneEcho ==
    /\ nreads["server"] <= 1
    /\ Len(sent["server"]) <= 1
    /\ sent["server"] # <<>> =>
          /\ pc["server"] \in {"closing", "returned"}
          /\ res["server"].done /\ res["server"].err = "nil"
          /\ res["server"].data = Plain(msgs[1])
          /\ Echo.len = msgs[1].len
          /\ pc["server"] = "returned" => (conn["server"] = "closed" /\ closed["server"])
    /\ Len(msgs) = 2 =>
          /\ rpos["server"] <= Frame(2).start
          /\ Len(wire["server"]) <= KeySize + NonceSize + 2 + Overhead + msgs[1].len

C24_Witness ==
    /\ Len(msgs) = 2
    /\ msgs[1] # msgs[2]
    /\ Frame(2).err = "nil"
    /\ Len(wire["client"]) = Frame(2).start + FrameLen(Frame(2))
    /\ rpos["server"] = Frame(2).start
    /\ Len(sent["server"]) = 1 /\ Echo.err = "nil"
    /\ pc["server"] = "returned" /\ conn["server"] = "closed"
    /\ ~closed["client"]

=============================================================================
